---- MODULE Spec2Model ----
(***************************************************************************)
(* Model of backend/lambda_auth.py: the request handlers of the            *)
(* authentication Lambda and the single DynamoDB table they share.         *)
(*                                                                         *)
(* Strings that end up in keys are sequences of one-character strings, so  *)
(* that key construction (f'USER#{user_id}') and key decoding              *)
(* (.replace('PROGRESS#', '')) are computed the way Python computes them.  *)
(* Instants are whole days; isoformat() strings are represented by the     *)
(* instant they print.  None is the empty string: the code only ever tests *)
(* such values for truthiness ("if not user_id").                          *)
(***************************************************************************)
EXTENDS Integers, Sequences, FiniteSets, TLC

(***************************************************************************)
(* Bounds of the model.                                                    *)
(***************************************************************************)
\* instants observed after the expiry of a token issued at instant 0
MaxLate == 1
\* instants observed between the issue of such a token and its expiry
MaxEarly == 1
\* POST /user/progress requests sent while logins are in flight
MaxSaves == 1
\* POST /user/progress requests sent by users who are logged in
MaxProgressSaves == 2

(***************************************************************************)
(* Program constants.                                                      *)
(***************************************************************************)
\* timedelta(days=7) of the bearer token
TokenDays == 7
\* timedelta(days=7) of the session record
SessionDays == 7

None == <<>>

(***************************************************************************)
(* Strings.                                                                *)
(***************************************************************************)
S_USER == <<"U", "S", "E", "R", "#">>
S_PROFILE == <<"P", "R", "O", "F", "I", "L", "E">>
S_PROGRESS == <<"P", "R", "O", "G", "R", "E", "S", "S", "#">>
S_SESSION == <<"S", "E", "S", "S", "I", "O", "N", "#">>
S_EMAIL == <<"E", "M", "A", "I", "L", "#">>
S_GOOGLE == <<"G", "O", "O", "G", "L", "E", "#">>
S_ANALYTICS == <<"A", "N", "A", "L", "Y", "T", "I", "C", "S", "#">>

\* the characters of the model in code-point order
Ascii == <<"#", "1", "2", "3", "4", "5", "6", "7", "8", "9", "@",
           "A", "C", "E", "F", "G", "I", "L", "M", "N", "O", "P", "R", "S", "T",
           "U", "Y",
           "a", "b", "c", "d", "t", "x">>

CharCode(c) == CHOOSE i \in 1..Len(Ascii) : Ascii[i] = c

\* s.startswith(pre)
StartsWith(s, pre) ==
    /\ Len(s) >= Len(pre)
    /\ SubSeq(s, 1, Len(pre)) = pre

\* s.replace(old, ''): every non-overlapping occurrence, left to right
RECURSIVE Remove(_, _)
Remove(s, old) ==
    IF s = <<>> THEN <<>>
    ELSE IF StartsWith(s, old) THEN Remove(SubSeq(s, Len(old) + 1, Len(s)), old)
    ELSE <<Head(s)>> \o Remove(Tail(s), old)

\* a < b as DynamoDB orders string keys (by UTF-8 bytes)
RECURSIVE StrLess(_, _)
StrLess(a, b) ==
    IF b = <<>> THEN FALSE
    ELSE IF a = <<>> THEN TRUE
    ELSE IF Head(a) = Head(b) THEN StrLess(Tail(a), Tail(b))
    ELSE CharCode(Head(a)) < CharCode(Head(b))

(***************************************************************************)
(* The table: a set of items, each a record with PK, SK and attributes.    *)
(***************************************************************************)
Has(item, attr) == attr \in DOMAIN item

SameKey(i, j) == i.PK = j.PK /\ i.SK = j.SK

\* a put that adds the item and keeps the one stored under its key
PutItemAppend(tbl, item) == tbl \cup {item}

\* a put that replaces the whole partition of the item
PutItemPartition(tbl, item) == {i \in tbl : i.PK # item.PK} \cup {item}

\* a put that adds the topic_index of the stored item to the one it writes
PutItemAdditive(tbl, item) ==
    LET old == {i \in tbl : SameKey(i, item)}
    IN  IF old = {} \/ ~Has(item, "topic_index")
        THEN (tbl \ old) \cup {item}
        ELSE (tbl \ old)
                 \cup {[item EXCEPT !.topic_index =
                                        @ + (CHOOSE i \in old : TRUE).topic_index]}

\* a put that keeps the topic_index of the item it replaces
PutItemMixed(tbl, item) ==
    LET old == {i \in tbl : SameKey(i, item)}
    IN  IF old = {} \/ ~Has(item, "topic_index")
        THEN (tbl \ old) \cup {item}
        ELSE (tbl \ old)
                 \cup {[item EXCEPT !.topic_index =
                                        (CHOOSE i \in old : TRUE).topic_index]}

\* table.put_item(Item=item): the item replaces the one stored under its key
PutItem(tbl, item) == {i \in tbl : ~SameKey(i, item)} \cup {item}

\* an update that writes the key and the attribute and drops the rest
UpdateItemReplace(tbl, pk, sk, attr, val) ==
    {i \in tbl : ~(i.PK = pk /\ i.SK = sk)}
        \cup {(attr :> val) @@ [PK |-> pk, SK |-> sk]}

\* table.update_item(Key, 'SET attr = :v'): sets one attribute in place, and
\* creates the item when the key is absent
UpdateItem(tbl, pk, sk, attr, val) ==
    LET key == [PK |-> pk, SK |-> sk]
        old == {i \in tbl : SameKey(i, key)}
        base == IF old = {} THEN key ELSE CHOOSE i \in old : TRUE
    IN  (tbl \ old) \cup {(attr :> val) @@ base}

\* table.get_item(Key): the items under the key (none or one)
GetItem(tbl, pk, sk) == {i \in tbl : i.PK = pk /\ i.SK = sk}

\* the items of a set as a sequence in descending order of attribute attr
RECURSIVE SortedByDescending(_, _)
SortedByDescending(items, attr) ==
    IF items = {} THEN <<>>
    ELSE LET m == CHOOSE i \in items :
                    \A j \in items : ~StrLess(i[attr], j[attr])
         IN  <<m>> \o SortedByDescending(items \ {m}, attr)

\* the items of a set as a sequence in ascending order of attribute attr
RECURSIVE SortedBy(_, _)
SortedBy(items, attr) ==
    IF items = {} THEN <<>>
    ELSE LET m == CHOOSE i \in items :
                    \A j \in items : ~StrLess(j[attr], i[attr])
         IN  <<m>> \o SortedBy(items \ {m}, attr)

\* table.query('PK = :pk AND begins_with(SK, :sk)'): in sort-key order
Query(tbl, pk, skPrefix) ==
    SortedBy({i \in tbl : i.PK = pk /\ StartsWith(i.SK, skPrefix)}, "SK")

\* table.query(IndexName='GSI1', 'GSI1PK = :gsi1pk'): the items that carry
\* the index attributes, in index-sort-key order
QueryGSI1(tbl, gsi1pk) ==
    SortedBy({i \in tbl : Has(i, "GSI1PK") /\ Has(i, "GSI1SK")
                          /\ i.GSI1PK = gsi1pk}, "GSI1SK")

(***************************************************************************)
(* Inputs.                                                                 *)
(***************************************************************************)
Digits == <<"1", "2", "3", "4", "5", "6", "7", "8", "9">>

\* the POST /auth/google requests: two, which may be in flight together
Logins == {1, 2}

\* the values uuid.uuid4() can return for a new user
UserUuids == {<<Digits[p]>> : p \in Logins}

\* the value uuid.uuid4() returns for the session of login request p
SessionUuid(p) == <<Digits[Cardinality(Logins) + p]>>

\* what id_token.verify_oauth2_token returns for the Google accounts
Alice == [sub |-> <<"7">>, email |-> <<"a", "@", "x">>, name |-> "Alice", picture |-> ""]
Bob == [sub |-> <<"8">>, email |-> <<"b", "@", "x">>, name |-> "Bob", picture |-> "pic"]
Accounts == {Alice, Bob}

\* the credential of a login request body
Credentials ==
    {[kind |-> "missing"], [kind |-> "invalid"]}
        \cup {[kind |-> "google", idinfo |-> a] : a \in Accounts}

\* the instants at which the clock is read while logins are in flight
LoginTimes == {0} \cup {TokenDays + d : d \in 0..MaxLate}

\* the instants at which the clock is read once the users are logged in
ProgressTimes == (0..MaxEarly) \cup {TokenDays}

(***************************************************************************)
(* Bearer tokens.                                                          *)
(***************************************************************************)
\* a token that outlives the session created with it
generate_jwt_token_long(user_id, email, t) ==
    [user_id |-> user_id, email |-> email, exp |-> t + TokenDays + 2, iat |-> t]

\* generate_jwt_token at instant t: the payload that is signed
generate_jwt_token(user_id, email, t) ==
    [user_id |-> user_id, email |-> email, exp |-> t + TokenDays, iat |-> t]

\* jwt.decode(token, JWT_SECRET) at instant t of the token of an
\* Authorization header: the payload, ExpiredSignatureError (exp <= now) or
\* InvalidTokenError
jwt_decode(header, t) ==
    IF header.kind # "bearer" THEN [result |-> "invalid"]
    ELSE IF header.token.exp <= t THEN [result |-> "expired"]
    ELSE [result |-> "ok", payload |-> header.token]

\* a helper that returns the user_id of a signed token without reading exp
get_user_from_token_unexpired(header, t) ==
    IF header.kind = "bearer" THEN header.token.user_id ELSE None

\* get_user_from_token: the user_id of the token, None on any failure
get_user_from_token(header, t) ==
    IF header.kind \in {"absent", "not_bearer"} THEN None
    ELSE LET d == jwt_decode(header, t)
         IN  IF d.result = "ok" THEN d.payload.user_id ELSE None

(***************************************************************************)
(* Items.                                                                  *)
(***************************************************************************)
Preferences == [audio_enabled |-> TRUE, theme |-> "light", language |-> "en"]

\* a Profile keyed by the Google id instead of the new user id
ProfileItemByGoogleId(user_id, google_id, email, name, avatar, timestamp) ==
    [PK |-> S_USER \o google_id, SK |-> S_PROFILE,
     GSI1PK |-> S_GOOGLE \o google_id, GSI1SK |-> S_USER \o google_id,
     google_id |-> google_id, email |-> email, name |-> name, avatar |-> avatar,
     created_at |-> timestamp, last_login |-> timestamp,
     preferences |-> [audio_enabled |-> TRUE, theme |-> "light", language |-> "en"]]

\* create_user: the Profile item
ProfileItem(user_id, google_id, email, name, avatar, timestamp) ==
    [PK |-> S_USER \o user_id, SK |-> S_PROFILE,
     GSI1PK |-> S_GOOGLE \o google_id, GSI1SK |-> S_USER \o user_id,
     google_id |-> google_id, email |-> email, name |-> name, avatar |-> avatar,
     created_at |-> timestamp, last_login |-> timestamp,
     preferences |-> Preferences]

\* create_user: the email lookup item
EmailItem(user_id, email) ==
    [PK |-> S_EMAIL \o email, SK |-> S_USER \o user_id,
     GSI1PK |-> S_EMAIL \o email, GSI1SK |-> S_USER \o user_id,
     user_id |-> user_id]

\* a Session item that carries the index attributes of its user
SessionItemIndexed(user_id, session_id, token, t) ==
    [PK |-> S_USER \o user_id, SK |-> S_SESSION \o session_id,
     GSI1PK |-> S_USER \o user_id, GSI1SK |-> S_USER \o user_id,
     session_token |-> token, expires_at |-> t + SessionDays,
     created_at |-> t, TTL |-> t + SessionDays]

\* a Session item whose TTL attribute is the creation instant
SessionItemShortTTL(user_id, session_id, token, t) ==
    [PK |-> S_USER \o user_id, SK |-> S_SESSION \o session_id,
     session_token |-> token, expires_at |-> t + SessionDays,
     created_at |-> t, TTL |-> t]

\* create_session: the Session item written at instant t
SessionItem(user_id, session_id, token, t) ==
    [PK |-> S_USER \o user_id, SK |-> S_SESSION \o session_id,
     session_token |-> token, expires_at |-> t + SessionDays,
     created_at |-> t, TTL |-> t + SessionDays]

RECURSIVE GCD(_, _)
GCD(a, b) == IF b = 0 THEN a ELSE GCD(b, a % b)

\* the number n / d * 100 as a fraction in lowest terms
Percent(n, d) ==
    LET g == GCD(n * 100, d)
    IN  IF n = 0 THEN <<0, 1>> ELSE <<(n * 100) \div g, d \div g>>

\* handle_save_progress: (len(completed_topics) / total_topics * 100)
\* if total_topics > 0 else 0
completion_percentage(completed_topics, total_topics) ==
    IF total_topics > 0 THEN Percent(Len(completed_topics), total_topics)
    ELSE <<0, 1>>

\* body.get('total_topics', len(completed_topics))
TotalTopics(body) ==
    IF Has(body, "total_topics") THEN body.total_topics
    ELSE Len(body.completed_topics)

\* a Progress item whose sort key is the bare course id
ProgressItemBare(user_id, body, t) ==
    [PK |-> S_USER \o user_id, SK |-> body.course_id,
     course_id |-> body.course_id, topic_index |-> body.topic_index,
     completed_topics |-> body.completed_topics,
     completion_percentage |-> <<0, 1>>,
     last_accessed |-> t, updated_at |-> t]

\* handle_save_progress: the Progress item written at instant t
ProgressItem(user_id, body, t) ==
    [PK |-> S_USER \o user_id, SK |-> S_PROGRESS \o body.course_id,
     course_id |-> body.course_id, topic_index |-> body.topic_index,
     completed_topics |-> body.completed_topics,
     completion_percentage |->
         completion_percentage(body.completed_topics, TotalTopics(body)),
     last_accessed |-> t, updated_at |-> t]

(***************************************************************************)
(* Helper functions of the handlers.  ok says whether the store call       *)
(* returns; when it raises, the helper's except clause decides.            *)
(***************************************************************************)
\* get_user_by_google_id: the user id of the first item of the index query,
\* None when there is none or when the query raises
get_user_by_google_id(tbl, google_id, ok) ==
    LET items == QueryGSI1(tbl, S_GOOGLE \o google_id)
    IN  IF ok /\ items # <<>> THEN Remove(items[1].GSI1SK, S_USER) ELSE None

ProfileAttrs == {"email", "name", "avatar", "created_at", "last_login"}

NoProfile == [none |-> TRUE]

\* a get_user_profile that returns the profile only of a user who has a
\* Session record
get_user_profile_in_session(tbl, user_id, ok) ==
    LET found == GetItem(tbl, S_USER \o user_id, S_PROFILE)
        item == CHOOSE i \in found : TRUE
    IN  IF /\ ok /\ found # {} /\ ProfileAttrs \subseteq DOMAIN item
           /\ \E i \in tbl : i.PK = S_USER \o user_id /\ StartsWith(i.SK, S_SESSION)
        THEN [id |-> user_id, email |-> item.email, name |-> item.name,
              avatar |-> item.avatar,
              preferences |-> IF Has(item, "preferences")
                              THEN item.preferences ELSE <<>>,
              created_at |-> item.created_at, last_login |-> item.last_login]
        ELSE NoProfile

\* get_user_profile: the profile dict, None (NoProfile here) when the item is
\* absent, when it lacks an attribute the dict reads (KeyError), or when the
\* get raises
get_user_profile(tbl, user_id, ok) ==
    LET found == GetItem(tbl, S_USER \o user_id, S_PROFILE)
        item == CHOOSE i \in found : TRUE
    IN  IF ok /\ found # {} /\ ProfileAttrs \subseteq DOMAIN item
        THEN [id |-> user_id, email |-> item.email, name |-> item.name,
              avatar |-> item.avatar,
              preferences |-> IF Has(item, "preferences")
                              THEN item.preferences ELSE <<>>,
              created_at |-> item.created_at, last_login |-> item.last_login]
        ELSE NoProfile

\* progress_data[course_id] = entry: a dict keeps the position of a key it
\* already holds and takes the new value
DictSet(d, k, v) ==
    IF \E n \in 1..Len(d) : d[n][1] = k
    THEN [n \in 1..Len(d) |-> IF d[n][1] = k THEN <<k, v>> ELSE d[n]]
    ELSE Append(d, <<k, v>>)

\* item.get(attr, default)
Get(item, attr, default) == IF Has(item, attr) THEN item[attr] ELSE default

\* handle_get_progress: the loop over response['Items']
RECURSIVE ProgressData(_, _)
ProgressData(items, d) ==
    IF items = <<>> THEN d
    ELSE LET item == Head(items)
             course_id == Remove(item.SK, S_PROGRESS)
             entry == [topic_index |-> Get(item, "topic_index", 0),
                       completed_topics |-> Get(item, "completed_topics", <<>>),
                       completion_percentage |->
                           Get(item, "completion_percentage", <<0, 1>>),
                       last_accessed |-> Get(item, "last_accessed", -1)]
         IN  ProgressData(Tail(items), DictSet(d, course_id, entry))

\* the 'progress' object of a successful GET /user/progress of user_id
progress_data(tbl, user_id) ==
    ProgressData(Query(tbl, S_USER \o user_id, S_PROGRESS), <<>>)

(***************************************************************************)
(* State.                                                                  *)
(***************************************************************************)
VARIABLES
    table,      \* the items of the DynamoDB table learnbyshorts-data
    now,        \* the instant datetime.utcnow() returns
    login,      \* login[p]: where login request p is in handle_google_login
    uuids,      \* the user ids uuid.uuid4() has returned
    issued,     \* the bearer tokens clients have received
    saves,      \* the number of progress writes sent to the store
    resp,       \* the response a handler has just returned, with its request
    overwritten, \* the items the put_item of the last step replaced
    inflight    \* inflight[r]: where save request r is in handle_save_progress

vars == <<table, now, login, uuids, issued, saves, resp, overwritten, inflight>>

NoResponse == [op |-> "none"]

\* a handler takes a step only once the response before it has been observed
Ready == resp = NoResponse

\* the POST /user/progress requests that may be in flight together
SaveRequests == {1, 2}

NewSave == [pc |-> "new"]

NewLogin == [pc |-> "new"]
DoneLogin == [pc |-> "done"]

Init ==
    /\ table = {}
    /\ now = 0
    /\ login = [p \in Logins |-> NewLogin]
    /\ uuids = {}
    /\ issued = {}
    /\ saves = 0
    /\ resp = NoResponse
    /\ overwritten = {}
    /\ inflight = [r \in SaveRequests |-> NewSave]

\* a step that calls table.put_item(Item=item)
Put(item) ==
    /\ table' = PutItem(table, item)
    /\ overwritten' = GetItem(table, item.PK, item.SK)

\* a step that leaves the table as it is
NoWrite ==
    /\ table' = table
    /\ overwritten' = {}

\* error_response(headers, message, status_code)
error_response(op, req, message, status_code) ==
    [op |-> op, req |-> req, status |-> status_code, error |-> message]

(***************************************************************************)
(* POST /auth/google: handle_google_login, one step per store call.        *)
(***************************************************************************)
\* the handler's except clause: error_response(headers, 'Login failed', 500)
LoginFailed(p) ==
    /\ login' = [login EXCEPT ![p] = DoneLogin]
    /\ resp' = error_response("login", p, "Login failed", 500)

\* the body is read and the Google credential verified; idinfo['sub'],
\* idinfo['email'] and idinfo['name'] raise KeyError when the claim is missing
LoginStart(p, cred) ==
    /\ Ready
    /\ login[p].pc = "new"
    /\ IF cred.kind = "missing"
       THEN /\ login' = [login EXCEPT ![p] = DoneLogin]
            /\ resp' = error_response("login", p, "Google credential required", 400)
       ELSE IF cred.kind = "invalid"
       THEN /\ login' = [login EXCEPT ![p] = DoneLogin]
            /\ resp' = error_response("login", p, "Invalid Google token", 401)
       ELSE IF ~({"sub", "email", "name"} \subseteq DOMAIN cred.idinfo)
       THEN LoginFailed(p)
       ELSE /\ login' = [login EXCEPT ![p] = [pc |-> "lookup", idinfo |-> cred.idinfo]]
            /\ UNCHANGED resp
    /\ NoWrite /\ UNCHANGED <<now, uuids, issued, saves, inflight>>

\* user_id = get_user_by_google_id(google_id), and the branch on it; a new
\* user gets a fresh uuid
LoginLookup(p, ok) ==
    /\ Ready
    /\ login[p].pc = "lookup"
    /\ LET user_id == get_user_by_google_id(table, login[p].idinfo.sub, ok)
       IN  IF user_id = None
           THEN \E u \in UserUuids \ uuids :
                   /\ uuids' = uuids \cup {u}
                   /\ login' = [login EXCEPT ![p] =
                          [pc |-> "create_profile", idinfo |-> login[p].idinfo,
                           user_id |-> u]]
           ELSE /\ login' = [login EXCEPT ![p] =
                       [pc |-> "update_last_login", idinfo |-> login[p].idinfo,
                        user_id |-> user_id]]
                /\ UNCHANGED uuids
    /\ NoWrite /\ UNCHANGED <<now, issued, saves, resp, inflight>>

\* jwt_token = generate_jwt_token(user_id, email), computed as soon as
\* create_user or update_last_login has returned: the request then waits at
\* create_session
WithToken(l) ==
    [pc |-> "session", idinfo |-> l.idinfo, user_id |-> l.user_id,
     token |-> generate_jwt_token(l.user_id, l.idinfo.email, now)]

\* create_user with its writes in the other order: the email lookup item first
CreateProfileEmailFirst(p, ok) ==
    /\ Ready
    /\ login[p].pc = "create_profile"
    /\ LET l == login[p]
       IN  IF ok
           THEN /\ Put(EmailItem(l.user_id, l.idinfo.email))
                /\ login' = [login EXCEPT ![p].pc = "create_email"]
                /\ UNCHANGED resp
           ELSE LoginFailed(p) /\ NoWrite
    /\ UNCHANGED <<now, uuids, issued, saves, inflight>>

\* create_user, first put_item: the Profile
CreateProfile(p, ok) ==
    /\ Ready
    /\ login[p].pc = "create_profile"
    /\ LET l == login[p]
       IN  IF ok
           THEN /\ Put(ProfileItem(l.user_id, l.idinfo.sub, l.idinfo.email,
                                    l.idinfo.name, l.idinfo.picture, now))
                /\ login' = [login EXCEPT ![p].pc = "create_email"]
                /\ UNCHANGED resp
           ELSE LoginFailed(p) /\ NoWrite
    /\ UNCHANGED <<now, uuids, issued, saves, inflight>>

\* create_user, second put_item: the email lookup item; then
\* jwt_token = generate_jwt_token(user_id, email)
CreateEmail(p, ok) ==
    /\ Ready
    /\ login[p].pc = "create_email"
    /\ LET l == login[p]
       IN  IF ok
           THEN /\ Put(EmailItem(l.user_id, l.idinfo.email))
                /\ login' = [login EXCEPT ![p] = WithToken(l)]
                /\ UNCHANGED resp
           ELSE LoginFailed(p) /\ NoWrite
    /\ UNCHANGED <<now, uuids, issued, saves, inflight>>

\* update_last_login(user_id), then jwt_token = generate_jwt_token(user_id, email)
update_last_login(p, ok) ==
    /\ Ready
    /\ login[p].pc = "update_last_login"
    /\ IF ok
       THEN /\ table' = UpdateItem(table, S_USER \o login[p].user_id, S_PROFILE,
                                   "last_login", now)
            /\ overwritten' = {}
            /\ login' = [login EXCEPT ![p] = WithToken(login[p])]
            /\ UNCHANGED resp
       ELSE LoginFailed(p) /\ NoWrite
    /\ UNCHANGED <<now, uuids, issued, saves, inflight>>

\* a create_session that runs only while no other login request is in flight
create_session_exclusive(p, ok) ==
    /\ Ready
    /\ login[p].pc = "session"
    /\ \A q \in Logins \ {p} : login[q].pc \in {"new", "done"}
    /\ LET l == login[p]
       IN  IF ok
           THEN /\ Put(SessionItem(l.user_id, SessionUuid(p), l.token, now))
                /\ login' = [login EXCEPT ![p] = DoneLogin]
                /\ resp' = [op |-> "login", req |-> p, status |-> 200,
                            token |-> l.token,
                            user |-> [id |-> l.user_id, email |-> l.idinfo.email,
                                      name |-> l.idinfo.name,
                                      avatar |-> l.idinfo.picture]]
           ELSE LoginFailed(p) /\ NoWrite
    /\ UNCHANGED <<now, uuids, issued, saves, inflight>>

\* create_session(user_id, jwt_token) and the 200 response
create_session(p, ok) ==
    /\ Ready
    /\ login[p].pc = "session"
    /\ LET l == login[p]
       IN  IF ok
           THEN /\ Put(SessionItem(l.user_id, SessionUuid(p), l.token, now))
                /\ login' = [login EXCEPT ![p] = DoneLogin]
                /\ resp' = [op |-> "login", req |-> p, status |-> 200,
                            token |-> l.token,
                            user |-> [id |-> l.user_id, email |-> l.idinfo.email,
                                      name |-> l.idinfo.name,
                                      avatar |-> l.idinfo.picture]]
           ELSE LoginFailed(p) /\ NoWrite
    /\ UNCHANGED <<now, uuids, issued, saves, inflight>>

(***************************************************************************)
(* Requests that carry an Authorization header.                            *)
(***************************************************************************)
\* the Authorization headers a client can send: none, one that does not
\* start with 'Bearer ', a bearer string that is no token, a token it was given
NoHeader == [kind |-> "absent"]
BadHeaders == {NoHeader, [kind |-> "not_bearer"], [kind |-> "malformed"]}
BearerHeaders == {[kind |-> "bearer", token |-> t] : t \in issued}
Headers == BadHeaders \cup BearerHeaders
\* the headers sent while logins are in flight
LoginHeaders == {NoHeader} \cup BearerHeaders

\* POST /auth/verify
handle_verify_token(header, ok) ==
    /\ Ready
    /\ LET req == [header |-> header]
           d == jwt_decode(header, now)
           user_profile == get_user_profile(table, d.payload.user_id, ok)
       IN  resp' =
             IF header.kind \in {"absent", "not_bearer"}
             THEN error_response("verify", req, "Invalid authorization header", 401)
             ELSE IF d.result = "expired"
             THEN error_response("verify", req, "Token expired", 401)
             ELSE IF d.result = "invalid"
             THEN error_response("verify", req, "Invalid token", 401)
             ELSE IF user_profile = NoProfile
             THEN error_response("verify", req, "User not found", 404)
             ELSE [op |-> "verify", req |-> req, status |-> 200,
                   valid |-> TRUE, user |-> user_profile]
    /\ NoWrite /\ UNCHANGED <<now, login, uuids, issued, saves, inflight>>

\* GET /user/progress
handle_get_progress(header, ok) ==
    /\ Ready
    /\ LET req == [header |-> header]
           user_id == get_user_from_token(header, now)
       IN  resp' =
             IF user_id = None
             THEN error_response("get_progress", req, "Unauthorized", 401)
             ELSE IF ~ok
             THEN error_response("get_progress", req, "Failed to get progress", 500)
             ELSE [op |-> "get_progress", req |-> req, status |-> 200,
                   progress |-> progress_data(table, user_id)]
    /\ NoWrite /\ UNCHANGED <<now, login, uuids, issued, saves, inflight>>

\* POST /user/progress
handle_save_progress(header, body, ok) ==
    LET req == [header |-> header, body |-> body]
        user_id == get_user_from_token(header, now)
    IN  /\ Ready
        /\ IF user_id = None
           THEN /\ resp' = error_response("save_progress", req, "Unauthorized", 401)
                /\ NoWrite /\ UNCHANGED <<now, login, uuids, issued, saves, inflight>>
           ELSE IF body.course_id = None
           THEN /\ resp' = error_response("save_progress", req, "Course ID required", 400)
                /\ NoWrite /\ UNCHANGED <<now, login, uuids, issued, saves, inflight>>
           ELSE /\ saves' = saves + 1
                /\ IF ok
                   THEN /\ Put(ProgressItem(user_id, body, now))
                        /\ resp' = [op |-> "save_progress", req |-> req, status |-> 200,
                                    success |-> TRUE, message |-> "Progress saved"]
                   ELSE /\ resp' = error_response("save_progress", req,
                                                  "Failed to save progress", 500)
                        /\ NoWrite
                /\ UNCHANGED <<now, login, uuids, issued, inflight>>

\* a logout handler that deletes the Session records
handle_logout_deletes ==
    /\ Ready
    /\ resp' = [op |-> "logout", req |-> [header |-> NoHeader], status |-> 200]
    /\ table' = {i \in table : ~StartsWith(i.SK, S_SESSION)}
    /\ overwritten' = {}
    /\ UNCHANGED <<now, login, uuids, issued, saves, inflight>>

\* POST /auth/logout: lambda_handler calls handle_logout, which is not
\* defined; the NameError ends in lambda_handler's except clause
handle_logout ==
    /\ Ready
    /\ resp' = error_response("logout", [header |-> NoHeader],
                              "Internal server error", 500)
    /\ NoWrite /\ UNCHANGED <<now, login, uuids, issued, saves, inflight>>

(***************************************************************************)
(* The environment: the clock and the store's TTL reclamation.             *)
(***************************************************************************)
\* time passes to the next of the observed instants
Tick(instants) ==
    /\ Ready
    /\ \E t \in instants :
          /\ t > now
          /\ \A u \in instants : u > now => t <= u
          /\ now' = t
    /\ NoWrite /\ UNCHANGED <<login, uuids, issued, saves, resp, inflight>>

\* the store deletes an item whose TTL attribute is in the past
TTLReclaim ==
    /\ Ready
    /\ \E i \in table :
          /\ Has(i, "TTL")
          /\ i.TTL < now
          /\ table' = table \ {i}
          /\ overwritten' = {}
    /\ UNCHANGED <<now, login, uuids, issued, saves, resp, inflight>>

(***************************************************************************)
(* Request bodies of POST /user/progress.                                  *)
(***************************************************************************)
\* the body sent while logins are in flight
LoginBodies ==
    { [course_id |-> <<"c">>, topic_index |-> 1, completed_topics |-> <<"t1">>] }

\* course ids; the last one holds the prefix of the sort key
Courses == {<<"c">>, <<"b">>, S_PROGRESS \o <<"c">>}

\* topic_index, completed_topics and, in some, total_topics
Payloads ==
    { [topic_index |-> 0, completed_topics |-> <<>>],
      [topic_index |-> 1, completed_topics |-> <<"t1">>, total_topics |-> 0],
      [topic_index |-> 1, completed_topics |-> <<"t1", "t2">>, total_topics |-> 4],
      [topic_index |-> 2, completed_topics |-> <<"t1", "t2">>, total_topics |-> 1] }

\* the bodies logged-in users send; one has no course_id
ProgressBodies ==
    {("course_id" :> c) @@ pl : c \in Courses, pl \in Payloads}
        \cup {[course_id |-> None, topic_index |-> 0, completed_topics |-> <<>>]}

\* lambda_handler returns the handler's response; the client of a successful
\* login now holds the token
Return ==
    /\ resp # NoResponse
    /\ issued' = IF resp.op = "login" /\ resp.status = 200
                 THEN issued \cup {resp.token} ELSE issued
    /\ resp' = NoResponse
    /\ NoWrite /\ UNCHANGED <<now, login, uuids, saves, inflight>>

Next ==
    \/ \E p \in Logins, cred \in Credentials : LoginStart(p, cred)
    \/ \E p \in Logins, ok \in BOOLEAN : LoginLookup(p, ok)
    \/ \E p \in Logins, ok \in BOOLEAN : CreateProfile(p, ok)
    \/ \E p \in Logins, ok \in BOOLEAN : CreateEmail(p, ok)
    \/ \E p \in Logins, ok \in BOOLEAN : update_last_login(p, ok)
    \/ \E p \in Logins, ok \in BOOLEAN : create_session(p, ok)
    \/ \E h \in LoginHeaders, ok \in BOOLEAN : handle_verify_token(h, ok)
    \/ \E h \in LoginHeaders, ok \in BOOLEAN : handle_get_progress(h, ok)
    \/ /\ saves < MaxSaves
       /\ \E h \in LoginHeaders, b \in LoginBodies, ok \in BOOLEAN :
             handle_save_progress(h, b, ok)
    \/ handle_logout
    \/ Tick(LoginTimes)
    \/ TTLReclaim
    \/ Return

\* every request and every interleaving of two logins, from the empty table
Spec == Init /\ [][Next]_vars

(***************************************************************************)
(* The progress requests of two logged-in users.                           *)
(***************************************************************************)
\* the token and the items of a first login of account a at instant 0
TokenOf(u, a) == generate_jwt_token(u, a.email, 0)

ItemsOf(u, a, p) ==
    { ProfileItem(u, a.sub, a.email, a.name, a.picture, 0),
      EmailItem(u, a.email),
      SessionItem(u, SessionUuid(p), TokenOf(u, a), 0) }

\* the state Spec is in after Alice (request 1, user "1") and then Bob
\* (request 2, user "2") have logged in at instant 0
InitProgress ==
    /\ table = ItemsOf(<<"1">>, Alice, 1) \cup ItemsOf(<<"2">>, Bob, 2)
    /\ now = 0
    /\ login = [p \in Logins |-> DoneLogin]
    /\ uuids = {<<"1">>, <<"2">>}
    /\ issued = {TokenOf(<<"1">>, Alice), TokenOf(<<"2">>, Bob)}
    /\ saves = 0
    /\ resp = NoResponse
    /\ overwritten = {}
    /\ inflight = [r \in SaveRequests |-> NewSave]

NextProgress ==
    \/ /\ saves < MaxProgressSaves
       /\ \E h \in BearerHeaders, b \in ProgressBodies, ok \in BOOLEAN :
             handle_save_progress(h, b, ok)
    \/ /\ saves < MaxProgressSaves
       /\ \E h \in BadHeaders, b \in LoginBodies :
             handle_save_progress(h, b, TRUE)
    \/ \E h \in Headers, ok \in BOOLEAN : handle_get_progress(h, ok)
    \/ Tick(ProgressTimes)
    \/ Return

SpecProgress == InitProgress /\ [][NextProgress]_vars

(***************************************************************************)
(* Reading the state.                                                      *)
(***************************************************************************)
IsProfile(i) == StartsWith(i.PK, S_USER) /\ i.SK = S_PROFILE
IsProgress(i) == StartsWith(i.PK, S_USER) /\ StartsWith(i.SK, S_PROGRESS)
IsSession(i) == StartsWith(i.PK, S_USER) /\ StartsWith(i.SK, S_SESSION)
IsEmail(i) == StartsWith(i.PK, S_EMAIL) /\ StartsWith(i.SK, S_USER)

\* the state right after a POST /user/progress was answered 200
SaveSucceeded == resp.op = "save_progress" /\ resp.status = 200

SavedUser == resp.req.header.token.user_id
SavedBody == resp.req.body

\* the entries of a progress object under key k
EntriesOf(d, k) == {n \in 1..Len(d) : d[n][1] = k}

\* the value a / b of a stored completion_percentage lies in [0, 100]
InRange(pct) == 0 <= pct[1] /\ pct[1] <= 100 * pct[2]

(***************************************************************************)
(* C1.  Round trip: right after handle_save_progress has succeeded for a   *)
(* user and a non-empty course_id, what handle_get_progress returns for    *)
(* that user holds exactly one entry under exactly that course_id, with    *)
(* the topic_index and the completed_topics just written.                  *)
(***************************************************************************)
C1_RoundTrip ==
    SaveSucceeded =>
        LET d == progress_data(table, SavedUser)
            hits == EntriesOf(d, SavedBody.course_id)
        IN  /\ Cardinality(hits) = 1
            /\ \A n \in hits :
                  /\ d[n][2].topic_index = SavedBody.topic_index
                  /\ d[n][2].completed_topics = SavedBody.completed_topics

(***************************************************************************)
(* C2.  Every stored Progress record has a completion_percentage in        *)
(* [0, 100], and a save with total_topics = 0 that was answered 200 has    *)
(* stored completion_percentage = 0.                                       *)
(***************************************************************************)
C2_PercentInRange ==
    /\ \A i \in table :
          Has(i, "completion_percentage") => InRange(i.completion_percentage)
    /\ (SaveSucceeded /\ TotalTopics(SavedBody) = 0) =>
          \A i \in GetItem(table, S_USER \o SavedUser,
                           S_PROGRESS \o SavedBody.course_id) :
              i.completion_percentage = <<0, 1>>

(***************************************************************************)
(* C10.  Saves overwrite by key: there is at most one Progress record per  *)
(* (user_id, course_id), and right after a save was answered 200 the       *)
(* record of that pair holds the attributes and values of that save and    *)
(* nothing else, whatever record the save replaced.                        *)
(***************************************************************************)
C10_OverwriteByKey ==
    /\ \A i, j \in table :
          (IsProgress(i) /\ IsProgress(j) /\ i.PK = j.PK
              /\ (i.SK = j.SK \/ i.course_id = j.course_id)) => i = j
    /\ SaveSucceeded =>
          \E i \in table :
              /\ i.PK = S_USER \o SavedUser
              /\ i.SK = S_PROGRESS \o SavedBody.course_id
              /\ DOMAIN i = {"PK", "SK", "course_id", "topic_index",
                             "completed_topics", "completion_percentage",
                             "last_accessed", "updated_at"}
              /\ i.course_id = SavedBody.course_id
              /\ i.topic_index = SavedBody.topic_index
              /\ i.completed_topics = SavedBody.completed_topics
              /\ i.completion_percentage =
                     IF TotalTopics(SavedBody) > 0
                     THEN Percent(Len(SavedBody.completed_topics),
                                  TotalTopics(SavedBody))
                     ELSE <<0, 1>>
              /\ i.last_accessed = now
              /\ i.updated_at = now

\* a second save has just replaced a record that differed in topic_index,
\* completed_topics and completion_percentage
C10_Witness ==
    /\ SaveSucceeded
    /\ \E old \in overwritten, i \in table :
          /\ SameKey(old, i)
          /\ old.topic_index # i.topic_index
          /\ old.completed_topics # i.completed_topics
          /\ old.completion_percentage # i.completion_percentage

(***************************************************************************)
(* Users and logins.                                                       *)
(***************************************************************************)
Profiles == {i \in table : IsProfile(i)}
Emails == {i \in table : IsEmail(i)}
Sessions == {i \in table : IsSession(i)}

\* the user id in the key of a Profile
UserOf(i) == SubSeq(i.PK, Len(S_USER) + 1, Len(i.PK))

\* no create_user and no update_last_login is under way
Quiet == \A p \in Logins : login[p].pc \in {"new", "lookup", "session", "done"}

\* request p is inside create_user, between its two writes
BetweenWrites(p) == login[p].pc = "create_email"

\* the email lookup item of a Profile is in the table
HasEmailItem(i) ==
    \E e \in Emails : e.PK = S_EMAIL \o i.email /\ e.SK = S_USER \o UserOf(i)

\* the Profile an email lookup item points to is in the table
HasProfile(e) ==
    \E i \in Profiles : i.PK = e.SK /\ S_EMAIL \o i.email = e.PK

(***************************************************************************)
(* C3.  In every state, no two Profile records of different users carry    *)
(* the same GSI1PK = GOOGLE#<google_id>.                                   *)
(***************************************************************************)
C3_UniqueGoogleId ==
    \A i, j \in Profiles : i.GSI1PK = j.GSI1PK => i.PK = j.PK

(***************************************************************************)
(* C4.  Race on first login: two login requests for the same Google        *)
(* account that both ran get_user_by_google_id before either ran           *)
(* create_user are both in the create branch with different new user ids,  *)
(* and once both have written their Profile the table holds two Profile    *)
(* records of different users with the same GSI1PK.                        *)
(***************************************************************************)
C4_RaceCreatesTwo ==
    \A p, q \in Logins :
        (p # q /\ login[p].pc \in {"create_profile", "create_email"}
               /\ login[q].pc \in {"create_profile", "create_email"}
               /\ login[p].idinfo.sub = login[q].idinfo.sub) =>
            /\ login[p].user_id # login[q].user_id
            /\ (BetweenWrites(p) /\ BetweenWrites(q)) =>
                  \E i, j \in Profiles :
                      /\ i.PK = S_USER \o login[p].user_id
                      /\ j.PK = S_USER \o login[q].user_id
                      /\ i.PK # j.PK
                      /\ i.GSI1PK = S_GOOGLE \o login[p].idinfo.sub
                      /\ j.GSI1PK = i.GSI1PK

\* both requests of one account are between the two writes of create_user:
\* the table holds two Profile records with the GSI1PK of the account
C4_Witness ==
    /\ BetweenWrites(1) /\ BetweenWrites(2)
    /\ login[1].idinfo.sub = login[2].idinfo.sub
    /\ Cardinality({i \in Profiles : i.GSI1PK = S_GOOGLE \o login[1].idinfo.sub}) = 2

(***************************************************************************)
(* C5.  Identity lookup is stable: for every user whose create_user has    *)
(* completed (Profile and email lookup item written),                      *)
(* get_user_by_google_id of the user's google_id returns that user id in   *)
(* every later state.                                                      *)
(***************************************************************************)
C5_StableLookup ==
    \A i \in Profiles :
        HasEmailItem(i) =>
            get_user_by_google_id(table, i.google_id, TRUE) = UserOf(i)

(***************************************************************************)
(* C6.  Profile and email lookup item exist only as a pair.  Stated for    *)
(* the states in which no create_user is under way, which is the least    *)
(* the claim says: there, a user's Profile is in the table if and only if  *)
(* the user's email lookup item is.                                        *)
(***************************************************************************)
C6_PairExists ==
    Quiet => /\ \A i \in Profiles : HasEmailItem(i)
             /\ \A e \in Emails : HasProfile(e)

(***************************************************************************)
(* C7.  create_user writes the Profile first: in every state an email      *)
(* lookup item (EMAIL#<email>, USER#<id>) implies the Profile              *)
(* (USER#<id>, PROFILE); a store failure between the two writes leaves a   *)
(* Profile without its email lookup item.                                  *)
(***************************************************************************)
C7_EmailImpliesProfile == \A e \in Emails : HasProfile(e)

\* the second write of create_user has failed: the login was answered 500
\* and a Profile is left without its email lookup item
C7_Witness ==
    /\ resp.op = "login" /\ resp.status = 500
    /\ Quiet
    /\ \E i \in Profiles : ~HasEmailItem(i)

(***************************************************************************)
(* C8.  Profile and email lookup items are never deleted: a step of any    *)
(* request, of the clock or of the TTL reclamation leaves every Profile    *)
(* and every email lookup item of the table in the table.                  *)
(***************************************************************************)
C8_NeverDeleted ==
    [][\A i \in Profiles \cup Emails : \E j \in table' : SameKey(i, j)]_vars

\* a Profile and its email lookup item written at instant 0 are in the table
\* after the user's sessions were reclaimed, a progress save and a logout
C8_Witness ==
    /\ resp.op = "logout"
    /\ saves = MaxSaves
    /\ \E i \in Profiles :
          /\ i.created_at = 0
          /\ HasEmailItem(i)
          /\ now > SessionDays
          /\ \E t \in issued : S_USER \o t.user_id = i.PK
          /\ \A s \in Sessions : s.PK # i.PK
          /\ \E pr \in table : IsProgress(pr) /\ pr.PK = i.PK

(***************************************************************************)
(* C9.  A session whose expires_at is in the past is never accepted: its   *)
(* token is rejected by jwt.decode and by get_user_from_token, and no      *)
(* request that carries the token is answered 200, while the record is     *)
(* still in the table.                                                     *)
(***************************************************************************)
Expired(s) == s.expires_at < now

C9_ExpiredNeverAccepted ==
    \A s \in Sessions :
        Expired(s) =>
            LET h == [kind |-> "bearer", token |-> s.session_token]
            IN  /\ jwt_decode(h, now).result # "ok"
                /\ get_user_from_token(h, now) = None
                /\ (resp.op \in {"verify", "get_progress", "save_progress"}
                        /\ resp.req.header = h) => resp.status = 401

\* a request carrying the token of an expired session that is still in the
\* table has just been answered 401
C9_Witness ==
    \E s \in Sessions :
        /\ Expired(s)
        /\ resp.op \in {"verify", "get_progress"}
        /\ resp.req.header = [kind |-> "bearer", token |-> s.session_token]
        /\ resp.status = 401

(***************************************************************************)
(* C11.  update_last_login changes only last_login: the step of a login    *)
(* request that runs update_last_login finds the Profile of its user in    *)
(* the table and replaces it by the same item with last_login set to the   *)
(* current instant; every other attribute of the Profile and every other   *)
(* item stay as they are, and no Profile ever lacks an attribute.          *)
(***************************************************************************)
ProfileDomain ==
    {"PK", "SK", "GSI1PK", "GSI1SK", "google_id", "email", "name", "avatar",
     "created_at", "last_login", "preferences"}

\* request p has run update_last_login in this step
UpdatedLastLogin(p) ==
    login[p].pc = "update_last_login" /\ login'[p].pc = "session"

C11_OnlyLastLogin ==
    [][/\ \A p \in Logins :
             UpdatedLastLogin(p) =>
                 \E i \in Profiles :
                     /\ i.PK = S_USER \o login[p].user_id
                     /\ table' = (table \ {i})
                                     \cup {[i EXCEPT !.last_login = now]}
       /\ \A i \in table' : IsProfile(i) => DOMAIN i = ProfileDomain]_vars

\* a returning user's request has run update_last_login at a later instant
\* than the one the Profile was created at
C11_Witness ==
    \E p \in Logins :
        /\ login[p].pc = "session"
        /\ \E i \in Profiles :
              /\ i.PK = S_USER \o login[p].user_id
              /\ i.last_login > i.created_at
              /\ i.last_login = now

(***************************************************************************)
(* C12.  Store failures are not taken for "not found": a login request     *)
(* takes the create branch only when the index holds no Profile of its     *)
(* Google id (a lookup that raised is not answered by creating a user),    *)
(* and POST /auth/verify answers 404 "User not found" only when the        *)
(* Profile of the token's user is absent from the table.                   *)
(***************************************************************************)
\* request p has left the lookup by the "user does not exist" branch
TookCreateBranch(p) ==
    login[p].pc = "lookup" /\ login'[p].pc = "create_profile"

C12_FailuresNotSwallowed ==
    [][/\ \A p \in Logins :
             TookCreateBranch(p) =>
                 QueryGSI1(table, S_GOOGLE \o login[p].idinfo.sub) = <<>>
       /\ (resp'.op = "verify" /\ resp'.status = 404) =>
             GetItem(table', S_USER \o resp'.req.header.token.user_id,
                     S_PROFILE) = {}]_vars

(***************************************************************************)
(* C13.  The read paths decode keys exactly: the course id that            *)
(* handle_get_progress extracts from the sort key of a Progress record is  *)
(* the id part of that key, also when the id part holds a prefix string,   *)
(* and the user id that get_user_by_google_id extracts from the GSI1SK of  *)
(* a Profile is the id part of the Profile's key; every key a successful   *)
(* GET /user/progress returns is the course id of a record of that user.   *)
(***************************************************************************)
\* the part of a key after its prefix
IdPart(key, prefix) == SubSeq(key, Len(prefix) + 1, Len(key))

\* the state right after a GET /user/progress was answered 200
GetSucceeded == resp.op = "get_progress" /\ resp.status = 200

C13_DecodeExact ==
    /\ \A i \in table :
          IsProgress(i) => Remove(i.SK, S_PROGRESS) = IdPart(i.SK, S_PROGRESS)
    /\ \A i \in Profiles : Remove(i.GSI1SK, S_USER) = IdPart(i.PK, S_USER)
    /\ GetSucceeded =>
          \A n \in 1..Len(resp.progress) :
              \E i \in table :
                  /\ IsProgress(i)
                  /\ i.PK = S_USER \o resp.req.header.token.user_id
                  /\ i.course_id = resp.progress[n][1]

(***************************************************************************)
(* Logins of accounts whose identity fields are empty or missing.          *)
(***************************************************************************)
\* what id_token.verify_oauth2_token returns for a token whose email claim
\* is the empty string, and for one that has no email claim
Carol == [sub |-> <<"9">>, email |-> <<>>, name |-> "Carol", picture |-> ""]
Dave == [sub |-> <<"6">>, name |-> "Dave", picture |-> ""]

EntityCredentials ==
    {[kind |-> "google", idinfo |-> a] : a \in {Alice, Carol, Dave}}

\* the bodies of POST /user/progress: one with a course_id, one without
EntityBodies ==
    LoginBodies \cup {[course_id |-> None, topic_index |-> 0, completed_topics |-> <<>>]}

NextEntity ==
    \/ \E p \in Logins, cred \in EntityCredentials : LoginStart(p, cred)
    \/ \E p \in Logins, ok \in BOOLEAN : LoginLookup(p, ok)
    \/ \E p \in Logins, ok \in BOOLEAN : CreateProfile(p, ok)
    \/ \E p \in Logins, ok \in BOOLEAN : CreateEmail(p, ok)
    \/ \E p \in Logins, ok \in BOOLEAN : update_last_login(p, ok)
    \/ \E p \in Logins, ok \in BOOLEAN : create_session(p, ok)
    \/ /\ saves < MaxSaves
       /\ \E h \in LoginHeaders, b \in EntityBodies, ok \in BOOLEAN :
             handle_save_progress(h, b, ok)
    \/ Return

\* the logins and the progress saves of such accounts, from the empty table
SpecEntity == Init /\ [][NextEntity]_vars

(***************************************************************************)
(* C14.  No record is written from an entity with an empty identifying     *)
(* field: no item of the table has an empty user id, course id or email    *)
(* in its key or in its attributes, and a POST /user/progress without a    *)
(* course_id is answered with an error.                                    *)
(***************************************************************************)
C14_NoEmptyIdentifier ==
    /\ \A i \in table :
          /\ IsProfile(i) => IdPart(i.PK, S_USER) # <<>> /\ i.email # <<>>
          /\ IsEmail(i) => IdPart(i.PK, S_EMAIL) # <<>> /\ IdPart(i.SK, S_USER) # <<>>
          /\ IsProgress(i) =>
                IdPart(i.PK, S_USER) # <<>> /\ IdPart(i.SK, S_PROGRESS) # <<>>
          /\ IsSession(i) => IdPart(i.PK, S_USER) # <<>>
    /\ (resp.op = "save_progress" /\ resp.req.body.course_id = None) =>
          resp.status \in {400, 401}

(***************************************************************************)
(* Key encoding: the put_item calls of the handlers applied to entities    *)
(* with arbitrary ids.                                                     *)
(***************************************************************************)
\* the entities written in one run
MaxEntities == 2

\* ids: plain ones, one that holds a key prefix, one that is a sort key
KeyIds == {<<"1">>, <<"2">>, S_USER \o <<"1">>, S_PROFILE}

\* COURSE ANALYTICS of the schema: PK ANALYTICS#{course_id}, SK USER#{user_id}
AnalyticsItem(course_id, user_id) ==
    [PK |-> S_ANALYTICS \o course_id, SK |-> S_USER \o user_id]

\* the item the code writes for an entity
ItemOf(e) ==
    CASE e.kind = "Profile" ->
             ProfileItem(e.user_id, Alice.sub, Alice.email, Alice.name,
                         Alice.picture, 0)
      [] e.kind = "Email" -> EmailItem(e.user_id, e.email)
      [] e.kind = "Progress" ->
             ProgressItem(e.user_id,
                          [course_id |-> e.course_id, topic_index |-> 0,
                           completed_topics |-> <<>>], 0)
      [] e.kind = "Session" ->
             SessionItem(e.user_id, e.session_id, TokenOf(e.user_id, Alice), 0)
      [] e.kind = "Analytics" -> AnalyticsItem(e.course_id, e.user_id)

KeyOf(e) == <<ItemOf(e).PK, ItemOf(e).SK>>

\* the entities written so far
Written == IF resp.op = "put" THEN resp.req ELSE {}

\* table.put_item of the item of entity e
WriteEntity(e) ==
    /\ Cardinality(Written \cup {e}) <= MaxEntities
    /\ Put(ItemOf(e))
    /\ resp' = [op |-> "put", req |-> Written \cup {e}]
    /\ UNCHANGED <<now, login, uuids, issued, saves, inflight>>

WriteProfile(u) == WriteEntity([kind |-> "Profile", user_id |-> u])
WriteEmail(u, m) == WriteEntity([kind |-> "Email", user_id |-> u, email |-> m])
WriteProgress(u, c) ==
    WriteEntity([kind |-> "Progress", user_id |-> u, course_id |-> c])
WriteSession(u, s) ==
    WriteEntity([kind |-> "Session", user_id |-> u, session_id |-> s])
WriteAnalytics(c, u) ==
    WriteEntity([kind |-> "Analytics", course_id |-> c, user_id |-> u])

NextKeys ==
    \/ \E u \in KeyIds : WriteProfile(u)
    \/ \E u, m \in KeyIds : WriteEmail(u, m)
    \/ \E u, c \in KeyIds : WriteProgress(u, c)
    \/ \E u, s \in KeyIds : WriteSession(u, s)
    \/ \E c, u \in KeyIds : WriteAnalytics(c, u)

SpecKeys == Init /\ [][NextKeys]_vars

(***************************************************************************)
(* C15.  Key encoding never collides: two different entities, of different *)
(* kinds or of one kind with different ids, get different (PK, SK) pairs,  *)
(* so that every entity written is in the table with its own item: no      *)
(* write has replaced the record of another entity.                        *)
(***************************************************************************)
C15_KeysNeverCollide ==
    /\ \A a, b \in Written : a # b => KeyOf(a) # KeyOf(b)
    /\ \A a \in Written : ItemOf(a) \in table
    /\ Cardinality(table) = Cardinality(Written)

\* a Profile and the Progress record of the same user for the course id
\* 'PROFILE' have been written: both are in the table
C15_Witness ==
    /\ \E a, b \in Written :
          /\ a.kind = "Profile" /\ b.kind = "Progress"
          /\ a.user_id = b.user_id
          /\ b.course_id = S_PROFILE
    /\ Cardinality(table) = 2

(***************************************************************************)
(* C16.  The index attributes GSI1PK and GSI1SK are on the Profile and     *)
(* email lookup items and on no other item.  A Profile's GSI1PK is         *)
(* GOOGLE#<its google_id> and its GSI1SK is USER#<its user id>; an email   *)
(* lookup item's GSI1PK is EMAIL#<its email> and its GSI1SK is             *)
(* USER#<its user_id>, the user whose Profile holds that email.            *)
(***************************************************************************)
Indexed(i) == Has(i, "GSI1PK") \/ Has(i, "GSI1SK")

C16_IndexAttributes ==
    \A i \in table :
        /\ Indexed(i) <=> (IsProfile(i) \/ IsEmail(i))
        /\ (IsProgress(i) \/ IsSession(i)) => ~Indexed(i)
        /\ IsProfile(i) =>
              /\ i.GSI1PK = S_GOOGLE \o i.google_id
              /\ i.GSI1SK = S_USER \o UserOf(i)
        /\ IsEmail(i) =>
              /\ i.GSI1PK = S_EMAIL \o IdPart(i.PK, S_EMAIL)
              /\ i.GSI1SK = S_USER \o i.user_id
              /\ i.GSI1SK = i.SK
              /\ HasProfile(i)

\* the table holds items of all four kinds, one of them a Profile that
\* update_last_login has written to
C16_Witness ==
    /\ \E i \in Profiles : i.last_login > i.created_at
    /\ Emails # {}
    /\ Sessions # {}
    /\ \E i \in table : IsProgress(i)

(***************************************************************************)
(* C17.  A login that is answered 200 has written one new Session record:  *)
(* the step that returns the response adds exactly one item to the table,  *)
(* under a key (USER#<user_id>, SESSION#<session_id>) that was not in the  *)
(* table, for the user of the response, with expires_at = the current      *)
(* instant + 7 days and TTL = expires_at; the Profile of that user is in   *)
(* the table.                                                              *)
(***************************************************************************)
\* the state right after a POST /auth/google was answered 200
LoginSucceeded == resp.op = "login" /\ resp.status = 200

C17_LoginWritesSession ==
    [][LoginSucceeded' =>
          \E s \in table' :
              /\ table' = table \cup {s}
              /\ GetItem(table, s.PK, s.SK) = {}
              /\ IsSession(s)
              /\ s.PK = S_USER \o resp'.user.id
              /\ IdPart(s.SK, S_SESSION) # <<>>
              /\ s.session_token = resp'.token
              /\ s.created_at = now
              /\ s.expires_at = now + SessionDays
              /\ s.TTL = s.expires_at
              /\ \E i \in Profiles : i.PK = s.PK]_vars

\* a login has just been answered 200 while a session of an earlier login of
\* the same user is in the table
C17_Witness ==
    /\ LoginSucceeded
    /\ \E s, o \in Sessions :
          /\ s.PK = S_USER \o resp.user.id
          /\ s.session_token = resp.token
          /\ s.created_at = now
          /\ o.PK = s.PK
          /\ o.SK # s.SK

(***************************************************************************)
(* C18.  Unauthorized requests have no effect: a GET or POST               *)
(* /user/progress whose Authorization header is missing, does not start    *)
(* with 'Bearer ', carries a malformed token or carries an expired token   *)
(* is answered 401 'Unauthorized', the same response in all four cases,    *)
(* and the step leaves the table unchanged.                                *)
(***************************************************************************)
\* the header carries no token that is valid at instant t
NoValidToken(header, t) ==
    \/ header.kind \in {"absent", "not_bearer", "malformed"}
    \/ header.kind = "bearer" /\ header.token.exp <= t

C18_UnauthorizedNoEffect ==
    [][(resp'.op \in {"get_progress", "save_progress"}
           /\ NoValidToken(resp'.req.header, now)) =>
          /\ resp'.status = 401
          /\ resp'.error = "Unauthorized"
          /\ table' = table]_vars

\* a save that carries an expired token has just been answered 401, after a
\* save of the same user was stored while the token was valid
C18_Witness ==
    /\ resp.op = "save_progress"
    /\ resp.status = 401
    /\ resp.req.header.kind = "bearer"
    /\ resp.req.header.token.exp <= now
    /\ \E i \in table :
          IsProgress(i) /\ i.PK = S_USER \o resp.req.header.token.user_id

(***************************************************************************)
(* C19.  Saves are idempotent overwrites.  A save repeats the last save of *)
(* its key when the record stored under the key is the one the same        *)
(* request wrote at an earlier instant.                                    *)
(***************************************************************************)
\* the record under the key of the save that resp' answers is the one that
\* this request wrote at instant t0
RepeatsSaveOf(t0) ==
    ProgressItem(resp'.req.header.token.user_id, resp'.req.body, t0) \in table

\* C19 as the specification states it: a successful save that repeats the
\* last save of its key leaves the table, every attribute of the stored
\* record included, as the first save left it
C19_SaveIdempotent ==
    [][(SaveSucceeded' /\ \E t0 \in 0..now : RepeatsSaveOf(t0)) =>
          table' = table]_vars

\* C19 as the code has it: a successful save that repeats the last save of
\* its key adds no record and changes no other record, and the stored record
\* keeps every attribute except last_accessed and updated_at, which take the
\* instant of the repeated save
C19_SaveIdempotentButTimestamps ==
    [][\A t0 \in 0..now :
          (SaveSucceeded' /\ RepeatsSaveOf(t0)) =>
              \E old \in table :
                  /\ old = ProgressItem(resp'.req.header.token.user_id,
                                        resp'.req.body, t0)
                  /\ table' = (table \ {old})
                                  \cup {[old EXCEPT !.last_accessed = now,
                                                    !.updated_at = now]}
                  /\ (t0 = now => table' = table)]_vars

\* the same request has been saved at a later instant than its first save: it
\* replaced the record that differs from the new one in the timestamps only
C19_Witness ==
    /\ SaveSucceeded
    /\ SavedBody.topic_index > 0
    /\ \E old \in overwritten :
          /\ \E t0 \in 0..(now - 1) : old = ProgressItem(SavedUser, SavedBody, t0)
          /\ [old EXCEPT !.last_accessed = now, !.updated_at = now] \in table

(***************************************************************************)
(* Listing.                                                                *)
(***************************************************************************)
\* the Progress records of user u
ProgressOf(u) == {i \in table : i.PK = S_USER \o u /\ IsProgress(i)}

\* the entry handle_get_progress builds from item i
EntryOf(i) ==
    [topic_index |-> i.topic_index, completed_topics |-> i.completed_topics,
     completion_percentage |-> i.completion_percentage,
     last_accessed |-> i.last_accessed]

\* every entry of a successful GET /user/progress is built from a Progress
\* record of the user of the token: none comes from a Profile, from a Session
\* or from a record of another user
ListingIsolated ==
    GetSucceeded =>
        \A n \in 1..Len(resp.progress) :
            \E i \in ProgressOf(resp.req.header.token.user_id) :
                /\ resp.progress[n][1] = Remove(i.SK, S_PROGRESS)
                /\ resp.progress[n][2] = EntryOf(i)

(***************************************************************************)
(* C20.  Listing is isolated per user and per kind: a successful GET       *)
(* /user/progress of user u returns exactly the Progress records whose PK  *)
(* is USER#<u>: one entry for each of these records, with the record's     *)
(* values, and no entry built from a Profile, a Session or a record of     *)
(* another user.                                                           *)
(***************************************************************************)
C20_ListingExact ==
    GetSucceeded =>
        LET d == resp.progress
            recs == ProgressOf(resp.req.header.token.user_id)
        IN  /\ Len(d) = Cardinality(recs)
            /\ \A i \in recs : \E n \in 1..Len(d) : d[n][2] = EntryOf(i)
            /\ \A n \in 1..Len(d) : \E i \in recs : d[n][2] = EntryOf(i)

(***************************************************************************)
(* POST /user/progress requests in flight together.  handle_save_progress  *)
(* makes one store call; here a request takes two steps, one up to the     *)
(* item it has built and one for table.put_item and the response, so that  *)
(* another request can run between them.                                   *)
(***************************************************************************)
\* the bodies of the concurrent saves: two of one course, one of another
\* course, one without course_id
ConcurrentBodies ==
    { [course_id |-> <<"c">>, topic_index |-> 0, completed_topics |-> <<>>],
      [course_id |-> <<"c">>, topic_index |-> 1,
       completed_topics |-> <<"t1", "t2">>, total_topics |-> 4],
      [course_id |-> <<"b">>, topic_index |-> 0, completed_topics |-> <<>>],
      [course_id |-> None, topic_index |-> 0, completed_topics |-> <<>>] }

\* handle_save_progress up to the Item of put_item: the token, the body, the
\* checks, the percentage and the two clock readings
SaveBuild(r, header, body) ==
    LET req == [header |-> header, body |-> body]
        user_id == get_user_from_token(header, now)
        Answered(status) == [pc |-> "done", req |-> req, status |-> status]
    IN  /\ Ready
        /\ inflight[r].pc = "new"
        /\ IF user_id = None
           THEN /\ resp' = error_response("save_progress", req, "Unauthorized", 401)
                /\ inflight' = [inflight EXCEPT ![r] = Answered(401)]
           ELSE IF body.course_id = None
           THEN /\ resp' = error_response("save_progress", req,
                                          "Course ID required", 400)
                /\ inflight' = [inflight EXCEPT ![r] = Answered(400)]
           ELSE /\ inflight' = [inflight EXCEPT ![r] =
                       [pc |-> "put", req |-> req,
                        item |-> ProgressItem(user_id, body, now)]]
                /\ UNCHANGED resp
        /\ NoWrite /\ UNCHANGED <<now, login, uuids, issued, saves>>

\* table.put_item(Item=...) of request r and its response
SavePut(r, ok) ==
    LET l == inflight[r]
        Answered(status) ==
            [pc |-> "done", req |-> l.req, item |-> l.item, status |-> status]
    IN  /\ Ready
        /\ l.pc = "put"
        /\ saves' = saves + 1
        /\ IF ok
           THEN /\ Put(l.item)
                /\ resp' = [op |-> "save_progress", req |-> l.req, status |-> 200,
                            success |-> TRUE, message |-> "Progress saved"]
                /\ inflight' = [inflight EXCEPT ![r] = Answered(200)]
           ELSE /\ resp' = error_response("save_progress", l.req,
                                          "Failed to save progress", 500)
                /\ inflight' = [inflight EXCEPT ![r] = Answered(500)]
                /\ NoWrite
        /\ UNCHANGED <<now, login, uuids, issued>>

NextConcurrent ==
    \/ \E r \in SaveRequests, h \in Headers, b \in ConcurrentBodies :
          SaveBuild(r, h, b)
    \/ \E r \in SaveRequests, ok \in BOOLEAN : SavePut(r, ok)
    \/ Tick(ProgressTimes)
    \/ Return

\* two save requests of the logged-in users, in every interleaving
SpecConcurrent == InitProgress /\ [][NextConcurrent]_vars

(***************************************************************************)
(* C21.  Concurrent saves are last-writer-wins per key: the put of a save  *)
(* request replaces the record under its key by the item the request       *)
(* built and changes nothing else, and once two interleaved saves of one   *)
(* (user_id, course_id) have both been answered 200 the stored record is   *)
(* the whole item of one of the two, never a mixture of both.              *)
(***************************************************************************)
\* request r has been answered 200
Saved(r) == inflight[r].pc = "done" /\ inflight[r].status = 200

\* request r puts its item in this step
Puts(r) == inflight[r].pc = "put" /\ Saved(r)'

\* both requests have been answered 200 and wrote to one key
BothSaved ==
    /\ \A r \in SaveRequests : Saved(r)
    /\ SameKey(inflight[1].item, inflight[2].item)

C21_LastWriterWins ==
    [][/\ \A r \in SaveRequests :
             Puts(r) =>
                 table' = {i \in table : ~SameKey(i, inflight[r].item)}
                              \cup {inflight[r].item}
       /\ BothSaved' =>
             \E r \in SaveRequests :
                 GetItem(table', inflight'[r].item.PK, inflight'[r].item.SK)
                     = {inflight'[r].item}]_vars

\* two saves of one key with different values were in flight together: the
\* request that built its item first has put it last, and its item is stored
C21_Witness ==
    /\ BothSaved
    /\ inflight[1].item.topic_index # inflight[2].item.topic_index
    /\ inflight[1].item.completed_topics # inflight[2].item.completed_topics
    /\ inflight[1].item.updated_at < inflight[2].item.updated_at
    /\ inflight[1].item \in table

(***************************************************************************)
(* C22.  The order of the entries of GET /user/progress.                   *)
(***************************************************************************)
\* the records of user u whose sort key decodes to the key k of an entry
DecodesTo(u, k) == {i \in ProgressOf(u) : Remove(i.SK, S_PROGRESS) = k}

\* the least sort key of a non-empty set of records
FirstKey(items) ==
    (CHOOSE i \in items : \A j \in items : ~StrLess(j.SK, i.SK)).SK

\* every Progress record of the table was written by one save: no save has
\* failed and none has replaced a record, so that updated_at is the instant
\* at which the record was first inserted
EachSavedOnce == saves = Cardinality({i \in table : IsProgress(i)})

\* C22 as the specification states it: the entries are in the order in which
\* their records were first inserted; the entry of a course first saved at
\* an earlier instant precedes the entry of a course first saved later
C22_InsertionOrder ==
    (GetSucceeded /\ EachSavedOnce) =>
        LET d == resp.progress
            u == resp.req.header.token.user_id
        IN  \A m, n \in 1..Len(d) :
                \A i \in DecodesTo(u, d[m][1]), j \in DecodesTo(u, d[n][1]) :
                    i.updated_at < j.updated_at => m < n

\* C22 as the code has it: the entries are in ascending order of the sort
\* keys PROGRESS#<course_id> of the records, whatever the order of insertion;
\* an entry stands where the first record that decodes to its key stands
C22_SortKeyOrder ==
    GetSucceeded =>
        LET d == resp.progress
            u == resp.req.header.token.user_id
        IN  \A m, n \in 1..Len(d) :
                /\ DecodesTo(u, d[m][1]) # {}
                /\ m < n => StrLess(FirstKey(DecodesTo(u, d[m][1])),
                                    FirstKey(DecodesTo(u, d[n][1])))

\* a listing of two entries whose first entry was inserted after the second
C22_Witness ==
    /\ GetSucceeded
    /\ EachSavedOnce
    /\ Len(resp.progress) = 2
    /\ \E i \in DecodesTo(resp.req.header.token.user_id, resp.progress[1][1]),
          j \in DecodesTo(resp.req.header.token.user_id, resp.progress[2][1]) :
          j.updated_at < i.updated_at

(***************************************************************************)
(* Progress of the requests.  A handler is straight-line code: it moves on *)
(* whenever its store call returns, and lambda_handler returns the         *)
(* response of a handler that has finished.                                *)
(***************************************************************************)
\* the steps of login request p after the credential was verified
LoginSteps(p) ==
    \E ok \in BOOLEAN :
        \/ LoginLookup(p, ok)
        \/ CreateProfile(p, ok)
        \/ CreateEmail(p, ok)
        \/ update_last_login(p, ok)
        \/ create_session(p, ok)

\* the step of save request r after it has built its item
SaveSteps(r) == \E ok \in BOOLEAN : SavePut(r, ok)

\* login request p is past the verification of its credential and has not
\* returned
LoginInFlight(p) == login[p].pc \notin {"new", "done"}

\* save request r has built its item and has not returned
SaveInFlight(r) == inflight[r].pc = "put"

NextLive ==
    \/ \E p \in Logins, cred \in Credentials : LoginStart(p, cred)
    \/ \E p \in Logins : LoginSteps(p)
    \/ \E r \in SaveRequests, h \in LoginHeaders, b \in LoginBodies :
          SaveBuild(r, h, b)
    \/ \E r \in SaveRequests : SaveSteps(r)
    \/ \E h \in LoginHeaders, ok \in BOOLEAN : handle_verify_token(h, ok)
    \/ \E h \in LoginHeaders, ok \in BOOLEAN : handle_get_progress(h, ok)
    \/ Return

\* the store calls of login request 1 and of save request 1 return, and
\* responses are returned; nothing is assumed about the other requests, which
\* may stay where they are for ever
SpecLive ==
    /\ Init
    /\ [][NextLive]_vars
    /\ SF_vars(LoginSteps(1))
    /\ SF_vars(SaveSteps(1))
    /\ WF_vars(Return)

(***************************************************************************)
(* C23.  No request blocks on another: a request in flight can take its    *)
(* next step whatever the other requests are doing (as soon as the         *)
(* response before it has been returned), and, given that its own store    *)
(* calls return, it returns a response even if no other request in flight  *)
(* ever takes a step.                                                      *)
(***************************************************************************)
C23_NoBlocking ==
    /\ []((Ready /\ LoginInFlight(1)) => ENABLED LoginSteps(1))
    /\ []((Ready /\ SaveInFlight(1)) => ENABLED SaveSteps(1))
    /\ LoginInFlight(1) ~> (login[1].pc = "done")
    /\ SaveInFlight(1) ~> (inflight[1].pc = "done")

\* login request 1 has returned and save request 1, sent with its token, has
\* just been answered 200, while login request 2 is inside create_user and
\* save request 2 is before its put
C23_Witness ==
    /\ login[1].pc = "done"
    /\ Saved(1) /\ SaveSucceeded
    /\ BetweenWrites(2)
    /\ SaveInFlight(2)

(***************************************************************************)
(* C24.  Sessions are never deleted by a request: POST /auth/logout is     *)
(* answered 500 'Internal server error' and leaves the table as it is, and *)
(* a step after which a Session record is no longer in the table is a step *)
(* of the TTL reclamation: it removes that one record, whose TTL is in the *)
(* past, and nothing else.                                                 *)
(***************************************************************************)
C24_LogoutDeletesNothing ==
    [][/\ resp'.op = "logout" =>
             /\ resp'.status = 500
             /\ resp'.error = "Internal server error"
             /\ table' = table
       /\ \A s \in Sessions :
             GetItem(table', s.PK, s.SK) = {} =>
                 /\ s.TTL < now
                 /\ table' = table \ {s}
                 /\ resp' = resp]_vars

\* a logout has just been answered while the session of one login is in the
\* table and the session of an earlier login has been reclaimed
C24_Witness ==
    /\ resp.op = "logout"
    /\ Sessions # {}
    /\ \E t \in issued : \A s \in Sessions : s.session_token # t

(***************************************************************************)
(* C25.  Credential acceptance does not depend on session state.  For      *)
(* every token a client holds: get_user_from_token returns its user while  *)
(* it is unexpired; what the handlers read from the table (the Profile,    *)
(* the Progress records) is the same with and without the Session records; *)
(* POST /auth/verify with the unexpired token of a user whose Profile is   *)
(* in the table is answered 200 when its get_item returns; and a verify    *)
(* answered 200 carried an unexpired token of a user with a Profile.       *)
(***************************************************************************)
\* the Authorization header that carries token t
Bearer(t) == [kind |-> "bearer", token |-> t]

\* the table without its Session records
WithoutSessions == table \ Sessions

\* POST /auth/verify with header h, its get_item returning, is answered 200
VerifyAccepts(h) == handle_verify_token(h, TRUE) /\ resp'.status = 200

C25_AcceptanceIgnoresSessions ==
    /\ \A t \in issued :
          /\ t.exp > now => get_user_from_token(Bearer(t), now) = t.user_id
          /\ get_user_profile(WithoutSessions, t.user_id, TRUE)
                 = get_user_profile(table, t.user_id, TRUE)
          /\ progress_data(WithoutSessions, t.user_id)
                 = progress_data(table, t.user_id)
          /\ (Ready /\ t.exp > now
                    /\ GetItem(table, S_USER \o t.user_id, S_PROFILE) # {}) =>
                ENABLED VerifyAccepts(Bearer(t))
    /\ (resp.op = "verify" /\ resp.status = 200) =>
          /\ resp.req.header.token.exp > now
          /\ GetItem(table, S_USER \o resp.req.header.token.user_id,
                     S_PROFILE) # {}

\* a verify has just been answered 200 for a user who also holds an earlier,
\* expired token whose Session record has been reclaimed
C25_Witness ==
    /\ resp.op = "verify" /\ resp.status = 200
    /\ \E t \in issued :
          /\ t.user_id = resp.req.header.token.user_id
          /\ t.exp <= now
          /\ \A s \in Sessions : s.session_token # t

====
